---- MODULE Spec2Model ----
(***************************************************************************)
(* Model of candy_lfs/config.py: the Config class (settings document kept  *)
(* in memory and persisted as YAML) and its credential routing through     *)
(* `git credential fill/approve/reject` and `git config --global`.         *)
(*                                                                         *)
(* Strings are sequences of one-character strings, so that formatting      *)
(* (f"{tenant_id}/{repo_name}"), URL parsing and the parsing of the        *)
(* helper's output are computed and not assumed.                           *)
(***************************************************************************)
EXTENDS Integers, Sequences, FiniteSets, TLC

VARIABLES
    config,     \* Config._config: the in-memory settings document
    file,       \* content of CONFIG_FILE (YAML text), or NoFile
    defaults,   \* DEFAULT_API_ENDPOINT / DEFAULT_LFS_ENDPOINT of this process
    helper,     \* the credential helper's store: <<host, path, username>> -> secret
    gitconfig,  \* git's global configuration: host -> value of useHttpPath
    calls,      \* the file writes and subprocess invocations of the last
                \* operation, in the order it made them
    last,       \* the last completed operation: name, arguments, result, and
                \* the tenants list it started from
    pid,        \* the process whose Config the variable config is
    peer        \* Config._config of the other process that has CONFIG_FILE
                \* open, or NoPeer

vars == <<config, file, defaults, helper, gitconfig, calls, last, pid, peer>>

----------------------------------------------------------------------------
(* Bounds of the model *)

\* the longest repository list handed to set_tenant_repos
MaxRepos == 2

----------------------------------------------------------------------------
(* Python values *)

\* Python's None: a value that is no string
None == <<"<None>">>

\* the empty str
EmptyStr == <<>>

\* Python truthiness of an Optional[str]: None and "" are falsy
Truthy(v) == v # None /\ v # EmptyStr

Letters ==
    {"a","b","c","d","e","f","g","h","i","j","k","l","m",
     "n","o","p","q","r","s","t","u","v","w","x","y","z"}

Digits == {"0","1","2","3","4","5","6","7","8","9"}

\* str.find: index (from 1) of the first element of s in the set cs, 0 if none
Find(s, cs) ==
    LET at == {i \in 1..Len(s) : s[i] \in cs}
    IN  IF at = {} THEN 0 ELSE CHOOSE i \in at : \A j \in at : i <= j

\* str.startswith
StartsWith(s, p) == Len(s) >= Len(p) /\ SubSeq(s, 1, Len(p)) = p

\* the part of s after position i
After(s, i) == SubSeq(s, i + 1, Len(s))

----------------------------------------------------------------------------
(* urllib.parse.urlparse(url).netloc *)

SchemeChars == Letters \cup Digits \cup {"+", "-", "."}

\* urlsplit: a leading "<scheme>:" is split off when the text before the first
\* ":" is not empty, starts with a letter and has scheme characters only
AfterScheme(url) ==
    LET i == Find(url, {":"})
    IN  IF i > 1 /\ url[1] \in Letters /\ \A j \in 1..(i-1) : url[j] \in SchemeChars
        THEN After(url, i)
        ELSE url

\* a network location cut at its first ":", as urlparse(url).hostname would be
Netloc_hostname(url) ==
    LET rest == AfterScheme(url)
        auth == IF StartsWith(rest, <<"/", "/">>) THEN After(rest, 2) ELSE EmptyStr
        d    == Find(auth, {"/", "?", "#", ":"})
    IN  IF d = 0 THEN auth ELSE SubSeq(auth, 1, d - 1)

\* _splitnetloc: when the rest starts with "//", the network location runs
\* up to the next "/", "?" or "#"; otherwise it is empty
Netloc(url) ==
    LET rest == AfterScheme(url)
    IN  IF StartsWith(rest, <<"/", "/">>)
        THEN LET auth == After(rest, 2)
                 d    == Find(auth, {"/", "?", "#"})
             IN  IF d = 0 THEN auth ELSE SubSeq(auth, 1, d - 1)
        ELSE EmptyStr

----------------------------------------------------------------------------
(* Values the operations are called with *)

T1 == <<"t">>
T2 == <<"t", "/", "r">>
TenantIds == {T1, T2}

R1 == <<"r">>
RepoNames == {R1, EmptyStr}

\* the i-th name of the lists handed to set_tenant_repos
RepoAt(i) == IF i % 2 = 1 THEN R1 ELSE EmptyStr

\* repo_names: list[str], of MaxRepos names at most
RepoLists == {[i \in 1..k |-> RepoAt(i)] : k \in 0..MaxRepos}

\* repo_name: Optional[str]
RepoArgs == RepoNames \cup {None}

TenantNames == {<<"n">>, <<"m">>}

K1 == <<"k">>
K2 == <<"a", "=", "b">>
Tokens == {K1, K2}

\* https://lfs.example.com/api
UrlPlain ==
    <<"h","t","t","p","s",":","/","/","l","f","s",".","e","x","a","m","p","l","e",
      ".","c","o","m","/","a","p","i">>

\* https://lfs.example.com:8443/api
UrlPort ==
    <<"h","t","t","p","s",":","/","/","l","f","s",".","e","x","a","m","p","l","e",
      ".","c","o","m",":","8","4","4","3","/","a","p","i">>

\* lfs.example.com/api : no scheme, so no network location
UrlBare ==
    <<"l","f","s",".","e","x","a","m","p","l","e",".","c","o","m","/","a","p","i">>

LfsEndpoints == {EmptyStr, UrlPlain, UrlPort, UrlBare}

ApiEndpoints == {EmptyStr, <<"h","t","t","p","s",":","/","/","a","p","i">>}

\* "candy-lfs.local"
LocalHost == <<"c","a","n","d","y","-","l","f","s",".","l","o","c","a","l">>

----------------------------------------------------------------------------
(* Python dict operations on the settings document *)

EmptyDict == [k \in {} |-> None]

\* d.get(k, dflt)
DictGet(d, k, dflt) == IF k \in DOMAIN d THEN d[k] ELSE dflt

\* d[k] = v
DictSet(d, k, v) == [x \in (DOMAIN d) \cup {k} |-> IF x = k THEN v ELSE d[x]]

\* del d[k]
DictDel(d, k) == [x \in (DOMAIN d) \ {k} |-> d[x]]

----------------------------------------------------------------------------
(* yaml.dump / yaml.safe_load of the settings document.  The YAML text is  *)
(* a tree of nodes: a mapping is written with its keys sorted, a list in   *)
(* its order, None as null, a str as a scalar.                             *)

\* the characters of the model in ASCII order
Ascii ==
    <<"#","+","-",".","/","0","1","2","3","4","5","6","7","8","9",":","=","?",
      "a","b","c","d","e","f","g","h","i","j","k","l","m",
      "n","o","p","q","r","s","t","u","v","w","x","y","z">>

Code(c) == CHOOSE i \in 1..Len(Ascii) : Ascii[i] = c

\* a < b for Python str
StrLess(a, b) ==
    \/ Len(a) < Len(b) /\ SubSeq(b, 1, Len(a)) = a
    \/ \E i \in 1..Len(a) :
          /\ i <= Len(b)
          /\ SubSeq(a, 1, i - 1) = SubSeq(b, 1, i - 1)
          /\ Code(a[i]) < Code(b[i])

\* sorted(S) for a set of str
RECURSIVE Sorted(_)
Sorted(S) ==
    IF S = {} THEN <<>>
    ELSE LET m == CHOOSE x \in S : \A y \in S \ {x} : StrLess(x, y)
         IN  <<m>> \o Sorted(S \ {m})

\* the keys of the settings document, sorted as yaml.dump sorts them
KeyOrder == <<"api_endpoint", "current_tenant", "lfs_endpoint", "tenant_repos", "tenants">>

YEmpty == <<"empty">>
YNull == <<"null">>
YStr(s) == <<"str", s>>
YOpt(v) == IF v = None THEN YNull ELSE YStr(v)
YSeq(items) == <<"seq", items>>
YMap(pairs) == <<"map", pairs>>

DumpTenants(ts) ==
    YSeq([i \in 1..Len(ts) |->
            YMap(<< <<"name", YStr(ts[i].name)>>,
                    <<"tenant_id", YStr(ts[i].tenant_id)>> >>)])

DumpRepos(tr) ==
    LET ks == Sorted(DOMAIN tr)
    IN  YMap([i \in 1..Len(ks) |->
                <<ks[i], YSeq([j \in 1..Len(tr[ks[i]]) |-> YStr(tr[ks[i]][j])])>>])

DumpField(k, v) ==
    CASE k \in {"api_endpoint", "lfs_endpoint"} -> YStr(v)
      [] k = "current_tenant" -> YOpt(v)
      [] k = "tenants" -> DumpTenants(v)
      [] k = "tenant_repos" -> DumpRepos(v)

yaml_dump(d) ==
    LET ks == SelectSeq(KeyOrder, LAMBDA k : k \in DOMAIN d)
    IN  YMap([i \in 1..Len(ks) |-> <<ks[i], DumpField(ks[i], d[ks[i]])>>])

\* the value a mapping node gives to key k
MapValue(pairs, k) == pairs[CHOOSE i \in 1..Len(pairs) : pairs[i][1] = k][2]

MapKeys(pairs) == {pairs[i][1] : i \in 1..Len(pairs)}

LoadScalar(y) == IF y = YNull THEN None ELSE y[2]

LoadTenants(y) ==
    [i \in 1..Len(y[2]) |->
        [tenant_id |-> LoadScalar(MapValue(y[2][i][2], "tenant_id")),
         name |-> LoadScalar(MapValue(y[2][i][2], "name"))]]

LoadRepos(y) ==
    [t \in MapKeys(y[2]) |->
        LET items == MapValue(y[2], t)[2]
        IN  [j \in 1..Len(items) |-> LoadScalar(items[j])]]

LoadField(k, y) ==
    CASE k \in {"api_endpoint", "lfs_endpoint", "current_tenant"} -> LoadScalar(y)
      [] k = "tenants" -> LoadTenants(y)
      [] k = "tenant_repos" -> LoadRepos(y)

\* yaml.safe_load(f) or {}
yaml_safe_load(text) ==
    IF text = YEmpty THEN EmptyDict
    ELSE [k \in MapKeys(text[2]) |-> LoadField(k, MapValue(text[2], k))]

----------------------------------------------------------------------------
(* Config._load_config, Config._save_config *)

NoFile == <<"absent">>

\* the document of a process that starts with the file f
_load_config(f, dflt) ==
    IF f # NoFile
    THEN yaml_safe_load(f)
    ELSE [k \in {"api_endpoint", "current_tenant"} |->
            IF k = "api_endpoint" THEN dflt.api ELSE None]

\* the file after the document d is saved
_save_config(d) == yaml_dump(d)

----------------------------------------------------------------------------
(* The read accessors *)

api_endpoint_get(d) == DictGet(d, "api_endpoint", EmptyStr)

lfs_endpoint(d, dflt) == DictGet(d, "lfs_endpoint", dflt.lfs)

current_tenant_get(d) == DictGet(d, "current_tenant", None)

get_tenant_list(d) == DictGet(d, "tenants", <<>>)

get_tenant_repos(d, tenant_id) ==
    DictGet(DictGet(d, "tenant_repos", EmptyDict), tenant_id, <<>>)

----------------------------------------------------------------------------
(* subprocess.run and the programs it starts *)

\* how an invocation ends: exit code 0, another exit code, TimeoutExpired
\* after the 5 seconds, or an OSError when the program cannot be started
Outcomes == {"ok", "nonzero", "timeout", "launch_failure"}

\* the outcomes subprocess.run reports by raising
Raising == {"timeout", "launch_failure"}

\* the hosts an identity can name
Hosts == {LocalHost} \cup {Netloc(e) : e \in LfsEndpoints}

TrueStr == <<"t","r","u","e">>
FalseStr == <<"f","a","l","s","e">>

Whitespace == {" ", "\n", "\t"}

\* str.strip
RECURSIVE Strip(_)
Strip(s) ==
    IF s = <<>> THEN s
    ELSE IF s[1] \in Whitespace THEN Strip(Tail(s))
    ELSE IF s[Len(s)] \in Whitespace THEN Strip(SubSeq(s, 1, Len(s) - 1))
    ELSE s

\* one entry of the log of invocations; useHttpPath is the value of
\* credential.https://<host>.useHttpPath when the program was started
Call(verb, host, path, username, password, outcome, gc) ==
    [verb |-> verb, host |-> host, path |-> path, username |-> username,
     password |-> password, outcome |-> outcome, useHttpPath |-> gc[host]]

\* the key under which the helper keeps a secret
Identity(host, path, username) == <<host, path, username>>

PasswordPrefix == <<"p","a","s","s","w","o","r","d","=">>
UsernamePrefix == <<"u","s","e","r","n","a","m","e","=">>
HostPrefix == <<"h","o","s","t","=">>

\* result.stdout.split("\n") of `git credential fill`: the request's fields,
\* the password when one is given, and the empty piece after the last "\n"
FillStdout(host, username, password) ==
    <<HostPrefix \o host, UsernamePrefix \o username>>
    \o (IF password = None THEN <<>> ELSE <<PasswordPrefix \o password>>)
    \o <<EmptyStr>>

\* output of a helper that does not keep to the protocol: two password
\* lines, a password line with nothing after the "=", and lines that hold
\* "password=" without starting with it
OddStdouts ==
    {<<PasswordPrefix \o K2, PasswordPrefix \o K1, EmptyStr>>,
     <<PasswordPrefix, EmptyStr>>,
     <<<<"x">> \o PasswordPrefix \o K1, <<" ">> \o PasswordPrefix \o K1, EmptyStr>>}

\* what `git credential fill` can answer for the identity id: the stored
\* secret with exit code 0 when there is one, no secret, the stored secret
\* with another exit code, odd output, or no output at all
FillResponses(h, host, path, username) ==
    LET id == Identity(host, path, username)
        held == {h[x] : x \in {y \in {id} : y \in DOMAIN h}}
    IN  {[outcome |-> o, stdout |-> FillStdout(host, username, k)] :
            o \in {"ok", "nonzero"}, k \in held}
        \cup {[outcome |-> "ok", stdout |-> FillStdout(host, username, None)]}
        \cup {[outcome |-> "ok", stdout |-> out] : out \in OddStdouts}
        \cup {[outcome |-> o, stdout |-> <<>>] : o \in Outcomes \ {"ok"}}

----------------------------------------------------------------------------
(* Config._get_git_credential_info *)

\* f"{tenant_id}{repo_name}": the path without its separator
ScopedPath_joined(tenant_id, repo_name) ==
    IF Truthy(repo_name) THEN tenant_id \o repo_name ELSE tenant_id

ScopedPath(tenant_id, repo_name) ==
    IF Truthy(repo_name) THEN tenant_id \o <<"/">> \o repo_name ELSE tenant_id

\* an identity that leaves the repository out of the path
_get_git_credential_info_tenant_only(d, dflt, tenant_id, repo_name) ==
    IF Truthy(lfs_endpoint(d, dflt))
    THEN <<Netloc(lfs_endpoint(d, dflt)), tenant_id>>
    ELSE <<LocalHost, tenant_id>>

\* <<host, path>>
_get_git_credential_info(d, dflt, tenant_id, repo_name) ==
    IF Truthy(lfs_endpoint(d, dflt))
    THEN <<Netloc(lfs_endpoint(d, dflt)), ScopedPath(tenant_id, repo_name)>>
    ELSE IF Truthy(repo_name)
         THEN <<LocalHost, tenant_id \o <<"/">> \o repo_name>>
         ELSE <<LocalHost, tenant_id>>

----------------------------------------------------------------------------
(* Config._git_credential_get / _git_credential_store / _git_credential_erase *)
(* Each gives the method's return value, whether it raised, the helper's    *)
(* store afterwards and the invocation it made.                             *)

\* the loop over result.stdout.split("\n"): line.split("=", 1)[1] of the
\* first line that starts with "password="
\* the parse with line.rsplit("=", 1)[1]: the text after the last "="
ParsePassword_rsplit(stdout) ==
    IF \E i \in 1..Len(stdout) : StartsWith(stdout[i], PasswordPrefix)
    THEN LET i == CHOOSE k \in 1..Len(stdout) :
                      /\ StartsWith(stdout[k], PasswordPrefix)
                      /\ \A j \in 1..(k-1) : ~StartsWith(stdout[j], PasswordPrefix)
             eqs == {k \in 1..Len(stdout[i]) : stdout[i][k] = "="}
         IN  After(stdout[i], CHOOSE k \in eqs : \A j \in eqs : j <= k)
    ELSE None

ParsePassword(stdout) ==
    IF \E i \in 1..Len(stdout) : StartsWith(stdout[i], PasswordPrefix)
    THEN LET i == CHOOSE k \in 1..Len(stdout) :
                      /\ StartsWith(stdout[k], PasswordPrefix)
                      /\ \A j \in 1..(k-1) : ~StartsWith(stdout[j], PasswordPrefix)
         IN  After(stdout[i], Find(stdout[i], {"="}))
    ELSE None

\* _git_credential_get without its try/except
_git_credential_get_unguarded(host, path, username, h, gc, resp) ==
    [ret    |-> IF resp.outcome = "ok" THEN ParsePassword(resp.stdout) ELSE None,
     raised |-> resp.outcome \in Raising,
     helper |-> h,
     calls  |-> <<Call("fill", host, path, username, None, resp.outcome, gc)>>]

_git_credential_get(host, path, username, h, gc, resp) ==
    [ret    |-> IF resp.outcome = "ok" THEN ParsePassword(resp.stdout) ELSE None,
     raised |-> FALSE,
     helper |-> h,
     calls  |-> <<Call("fill", host, path, username, None, resp.outcome, gc)>>]

\* _git_credential_store that leaves path= out of the request
_git_credential_store_no_path(host, path, username, password, h, gc, outcome) ==
    [ret    |-> None,
     raised |-> FALSE,
     helper |-> IF outcome = "ok"
                THEN DictSet(h, Identity(host, EmptyStr, username), password)
                ELSE h,
     calls  |-> <<Call("approve", host, EmptyStr, username, password, outcome, gc)>>]

_git_credential_store(host, path, username, password, h, gc, outcome) ==
    [ret    |-> None,
     raised |-> FALSE,
     helper |-> IF outcome = "ok"
                THEN DictSet(h, Identity(host, path, username), password)
                ELSE h,
     calls  |-> <<Call("approve", host, path, username, password, outcome, gc)>>]

_git_credential_erase(host, path, username, h, gc, outcome) ==
    [ret    |-> None,
     raised |-> FALSE,
     helper |-> IF outcome = "ok" THEN DictDel(h, Identity(host, path, username)) ELSE h,
     calls  |-> <<Call("reject", host, path, username, None, outcome, gc)>>]

----------------------------------------------------------------------------
(* Config._ensure_use_http_path *)

\* stdout of `git config --global --get <key>`
ConfigGetStdout(gc, host, outcome) ==
    IF outcome = "ok" THEN gc[host] \o <<"\n">> ELSE EmptyStr

\* _ensure_use_http_path that sets the key whatever the --get printed
_ensure_use_http_path_always(host, gc, o1, o2) ==
    LET get  == Call("config_get", host, EmptyStr, EmptyStr, None, o1, gc)
        set  == Call("config_set", host, EmptyStr, EmptyStr, None, o2, gc)
        sets == o1 \notin Raising
    IN  [raised    |-> FALSE,
         gitconfig |-> IF sets /\ o2 = "ok"
                       THEN [gc EXCEPT ![host] = TrueStr]
                       ELSE gc,
         calls     |-> IF sets THEN <<get, set>> ELSE <<get>>]

\* o1 ends the --get, o2 the set that follows it when the key is not "true"
_ensure_use_http_path(host, gc, o1, o2) ==
    LET get  == Call("config_get", host, EmptyStr, EmptyStr, None, o1, gc)
        set  == Call("config_set", host, EmptyStr, EmptyStr, None, o2, gc)
        sets == /\ o1 \notin Raising
                /\ (o1 # "ok" \/ Strip(ConfigGetStdout(gc, host, o1)) # TrueStr)
    IN  [raised    |-> FALSE,
         gitconfig |-> IF sets /\ o2 = "ok"
                       THEN [gc EXCEPT ![host] = TrueStr]
                       ELSE gc,
         calls     |-> IF sets THEN <<get, set>> ELSE <<get>>]

----------------------------------------------------------------------------
(* The credential operations as functions of the state they read: each     *)
(* gives the return value, whether an exception left the method, the       *)
(* helper's store and git's configuration afterwards, and the invocations. *)

get_github_token_run(d, dflt, tenant_id, repo_name, h, gc, resp) ==
    LET info == _get_git_credential_info(d, dflt, tenant_id, repo_name)
    IN  _git_credential_get(info[1], info[2], tenant_id, h, gc, resp)

\* set_github_token that stores first and ensures the key afterwards
set_github_token_run_store_first(d, dflt, tenant_id, token, repo_name, h, gc, o1, o2, o3) ==
    LET info == _get_git_credential_info(d, dflt, tenant_id, repo_name)
        st   == _git_credential_store(info[1], info[2], tenant_id, token, h, gc, o3)
        ens  == _ensure_use_http_path(info[1], gc, o1, o2)
    IN  [ret |-> None, raised |-> FALSE, helper |-> st.helper,
         gitconfig |-> ens.gitconfig, calls |-> st.calls \o ens.calls]

set_github_token_run(d, dflt, tenant_id, token, repo_name, h, gc, o1, o2, o3) ==
    LET info == _get_git_credential_info(d, dflt, tenant_id, repo_name)
        ens  == _ensure_use_http_path(info[1], gc, o1, o2)
        st   == _git_credential_store(info[1], info[2], tenant_id, token,
                                      h, ens.gitconfig, o3)
    IN  IF ens.raised
        THEN [ret |-> None, raised |-> TRUE, helper |-> h,
              gitconfig |-> ens.gitconfig, calls |-> ens.calls]
        ELSE [ret |-> None, raised |-> st.raised, helper |-> st.helper,
              gitconfig |-> ens.gitconfig, calls |-> ens.calls \o st.calls]

\* delete_github_token that names the path as the username
delete_github_token_run_path_user(d, dflt, tenant_id, repo_name, h, gc, outcome) ==
    LET info == _get_git_credential_info(d, dflt, tenant_id, repo_name)
    IN  _git_credential_erase(info[1], info[2], info[2], h, gc, outcome)

delete_github_token_run(d, dflt, tenant_id, repo_name, h, gc, outcome) ==
    LET info == _get_git_credential_info(d, dflt, tenant_id, repo_name)
    IN  _git_credential_erase(info[1], info[2], tenant_id, h, gc, outcome)

\* the loop taken from the last name to the first; os[k] still ends the
\* erasure of the k-th name
EraseLoop_reversed(d, dflt, tenant_id, repo_names, i, h, gc, os) ==
    LET n == Len(repo_names)
        one(k) == delete_github_token_run(d, dflt, tenant_id, repo_names[k], h, gc, os[k])
        gone == {id \in DOMAIN h : \E k \in i..n : id \notin DOMAIN one(k).helper}
    IN  [raised |-> FALSE,
         helper |-> [id \in DOMAIN h \ gone |-> h[id]],
         calls  |-> [k \in 1..(n - i + 1) |-> one(n - k + 1).calls[1]]]

\* the loop with an erasure that raises when `git credential reject` does
\* not exit with 0: it stops at the first such name
EraseLoop_raising(d, dflt, tenant_id, repo_names, i, h, gc, os) ==
    LET bad  == {k \in i..Len(repo_names) : os[k] # "ok"}
        stop == IF bad = {} THEN Len(repo_names) ELSE CHOOSE k \in bad : \A j \in bad : k <= j
    IN  [raised |-> bad # {},
         helper |-> h,
         calls  |-> [k \in 1..(stop - i + 1) |->
                        delete_github_token_run(d, dflt, tenant_id, repo_names[i + k - 1],
                                                h, gc, os[i + k - 1]).calls[1]]]

\* the loop `for repo_name in repo_names: self.delete_github_token(...)`,
\* from the i-th name on; os[i] ends the i-th invocation
RECURSIVE EraseLoop(_, _, _, _, _, _, _, _)
EraseLoop(d, dflt, tenant_id, repo_names, i, h, gc, os) ==
    IF i > Len(repo_names)
    THEN [raised |-> FALSE, helper |-> h, calls |-> <<>>]
    ELSE LET one == delete_github_token_run(d, dflt, tenant_id, repo_names[i], h, gc, os[i])
         IN  IF one.raised
             THEN [raised |-> TRUE, helper |-> one.helper, calls |-> one.calls]
             ELSE LET rest == EraseLoop(d, dflt, tenant_id, repo_names, i + 1,
                                        one.helper, gc, os)
                  IN  [raised |-> rest.raised, helper |-> rest.helper,
                       calls |-> one.calls \o rest.calls]

----------------------------------------------------------------------------
(* The settings operations as functions of the document *)

\* the entry of the log for a write of the file
SaveCall ==
    [verb |-> "save_config", host |-> EmptyStr, path |-> EmptyStr, username |-> EmptyStr,
     password |-> None, outcome |-> "ok", useHttpPath |-> None]

\* set_tenant_repos that starts from an empty tenant_repos every time
set_tenant_repos_doc_fresh(d, tenant_id, repo_names) ==
    DictSet(d, "tenant_repos", DictSet(EmptyDict, tenant_id, repo_names))

set_tenant_repos_doc(d, tenant_id, repo_names) ==
    LET d1 == IF "tenant_repos" \notin DOMAIN d
              THEN DictSet(d, "tenant_repos", EmptyDict)
              ELSE d
    IN  DictSet(d1, "tenant_repos", DictSet(d1["tenant_repos"], tenant_id, repo_names))

\* _clear_tenant_repos without the _save_config after the del
_clear_tenant_repos_unsaved(d, tenant_id) ==
    LET tenant_repos == DictGet(d, "tenant_repos", EmptyDict)
    IN  [config |-> IF tenant_id \in DOMAIN tenant_repos
                    THEN DictSet(d, "tenant_repos", DictDel(tenant_repos, tenant_id))
                    ELSE d,
         saved |-> FALSE]

\* the document afterwards, and whether it was saved
_clear_tenant_repos(d, tenant_id) ==
    LET tenant_repos == DictGet(d, "tenant_repos", EmptyDict)
    IN  IF tenant_id \in DOMAIN tenant_repos
        THEN [config |-> DictSet(d, "tenant_repos", DictDel(tenant_repos, tenant_id)),
              saved |-> TRUE]
        ELSE [config |-> d, saved |-> FALSE]

\* add_tenant without the search: it appends whatever the list holds
add_tenant_list_append(tenants, tenant_id, name) ==
    Append(tenants, [tenant_id |-> tenant_id, name |-> name])

\* add_tenant that replaces the entry by a new one at the end
add_tenant_list_moved(tenants, tenant_id, name) ==
    Append(SelectSeq(tenants, LAMBDA t : t.tenant_id # tenant_id),
           [tenant_id |-> tenant_id, name |-> name])

\* the for/else of add_tenant: the first entry with this tenant_id gets the
\* name, and when there is none an entry is appended
add_tenant_list(tenants, tenant_id, name) ==
    IF \E i \in 1..Len(tenants) : tenants[i].tenant_id = tenant_id
    THEN LET i == CHOOSE k \in 1..Len(tenants) :
                      /\ tenants[k].tenant_id = tenant_id
                      /\ \A j \in 1..(k-1) : tenants[j].tenant_id # tenant_id
         IN  [tenants EXCEPT ![i].name = name]
    ELSE Append(tenants, [tenant_id |-> tenant_id, name |-> name])

\* remove_tenant that drops the first entry it finds and stops
remove_tenant_list_first(tenants, tenant_id) ==
    IF tenants # <<>> /\ tenants[1].tenant_id = tenant_id THEN Tail(tenants) ELSE tenants

\* [t for t in tenants if t["tenant_id"] != tenant_id]
remove_tenant_list(tenants, tenant_id) ==
    SelectSeq(tenants, LAMBDA t : t.tenant_id # tenant_id)

----------------------------------------------------------------------------
(* The operations of Config.  Every action is one completed call; the      *)
(* parameters after the method's own say how the programs it starts end.   *)

\* the record of a call; before is the tenants list the call started from
Done(op, tenant_id, repo_name, value, repos, result, raised) ==
    [op |-> op, tenant_id |-> tenant_id, repo_name |-> repo_name, value |-> value,
     repos |-> repos, result |-> result, raised |-> raised,
     before |-> get_tenant_list(config)]

\* api_endpoint.setter
api_endpoint_set(value) ==
    /\ config' = DictSet(config, "api_endpoint", value)
    /\ file' = _save_config(config')
    /\ calls' = <<SaveCall>>
    /\ last' = Done("api_endpoint", None, None, value, <<>>, None, FALSE)
    /\ UNCHANGED <<defaults, helper, gitconfig, pid, peer>>

\* lfs_endpoint.setter
lfs_endpoint_set(value) ==
    /\ config' = DictSet(config, "lfs_endpoint", value)
    /\ file' = _save_config(config')
    /\ calls' = <<SaveCall>>
    /\ last' = Done("lfs_endpoint", None, None, value, <<>>, None, FALSE)
    /\ UNCHANGED <<defaults, helper, gitconfig, pid, peer>>

\* current_tenant.setter
current_tenant_set(value) ==
    /\ config' = DictSet(config, "current_tenant", value)
    /\ file' = _save_config(config')
    /\ calls' = <<SaveCall>>
    /\ last' = Done("current_tenant", None, None, value, <<>>, None, FALSE)
    /\ UNCHANGED <<defaults, helper, gitconfig, pid, peer>>

\* resp is the answer of `git credential fill`; the record of the call keeps
\* the lines it printed as value
get_github_token(tenant_id, repo_name, resp) ==
    \E info \in {_get_git_credential_info(config, defaults, tenant_id, repo_name)} :
      /\ resp \in FillResponses(helper, info[1], info[2], tenant_id)
      /\ \E run \in {get_github_token_run(config, defaults, tenant_id, repo_name,
                                          helper, gitconfig, resp)} :
           /\ calls' = run.calls
           /\ last' = Done("get_github_token", tenant_id, repo_name, resp.stdout, <<>>,
                           run.ret, run.raised)
           /\ UNCHANGED <<config, file, defaults, helper, gitconfig, pid, peer>>

\* o1 ends `git config --get`, o2 the `git config` that sets the key (when it
\* runs), o3 `git credential approve` (when the method gets that far)
set_github_token(tenant_id, token, repo_name, o1, o2, o3) ==
    \E run \in {set_github_token_run(config, defaults, tenant_id, token, repo_name,
                                      helper, gitconfig, o1, o2, o3)} :
      \* `git config --get` exits with 0 only for a key that is set
      /\ o1 = "ok" => run.calls[1].useHttpPath # None
      \* a program that is not started has no outcome
      /\ (\A i \in 1..Len(run.calls) : run.calls[i].verb # "config_set") => o2 = "ok"
      /\ (\A i \in 1..Len(run.calls) : run.calls[i].verb # "approve") => o3 = "ok"
      /\ helper' = run.helper
      /\ gitconfig' = run.gitconfig
      /\ calls' = run.calls
      /\ last' = Done("set_github_token", tenant_id, repo_name, token, <<>>,
                      run.ret, run.raised)
      /\ UNCHANGED <<config, file, defaults, pid, peer>>

delete_github_token(tenant_id, repo_name, outcome) ==
    \E run \in {delete_github_token_run(config, defaults, tenant_id, repo_name,
                                         helper, gitconfig, outcome)} :
      /\ helper' = run.helper
      /\ calls' = run.calls
      /\ last' = Done("delete_github_token", tenant_id, repo_name, None, <<>>,
                      run.ret, run.raised)
      /\ UNCHANGED <<config, file, defaults, gitconfig, pid, peer>>

\* os[i] ends the i-th `git credential reject`
delete_all_tenant_credentials(tenant_id, os) ==
    \E repo_names \in {get_tenant_repos(config, tenant_id)} :
      /\ DOMAIN os = 1..Len(repo_names)
      /\ \E loop \in {EraseLoop(config, defaults, tenant_id, repo_names, 1,
                                helper, gitconfig, os)},
            clr \in {_clear_tenant_repos(config, tenant_id)} :
           /\ helper' = loop.helper
           /\ config' = IF loop.raised THEN config ELSE clr.config
           /\ file' = IF ~loop.raised /\ clr.saved THEN _save_config(config') ELSE file
           /\ calls' = loop.calls
                       \o (IF ~loop.raised /\ clr.saved THEN <<SaveCall>> ELSE <<>>)
           /\ last' = Done("delete_all_tenant_credentials", tenant_id, None, None,
                           repo_names, None, loop.raised)
           /\ UNCHANGED <<defaults, gitconfig, pid, peer>>

set_tenant_repos(tenant_id, repo_names) ==
    /\ config' = set_tenant_repos_doc(config, tenant_id, repo_names)
    /\ file' = _save_config(config')
    /\ calls' = <<SaveCall>>
    /\ last' = Done("set_tenant_repos", tenant_id, None, None, repo_names, None, FALSE)
    /\ UNCHANGED <<defaults, helper, gitconfig, pid, peer>>

\* add_tenant that reads the file again before it changes the list
add_tenant_reloading(tenant_id, name) ==
    /\ config' = DictSet(_load_config(file, defaults), "tenants",
                         add_tenant_list(get_tenant_list(_load_config(file, defaults)),
                                         tenant_id, name))
    /\ file' = _save_config(config')
    /\ calls' = <<SaveCall>>
    /\ last' = Done("add_tenant", tenant_id, None, name, <<>>, None, FALSE)
    /\ UNCHANGED <<defaults, helper, gitconfig, pid, peer>>

add_tenant(tenant_id, name) ==
    /\ config' = DictSet(config, "tenants",
                         add_tenant_list(get_tenant_list(config), tenant_id, name))
    /\ file' = _save_config(config')
    /\ calls' = <<SaveCall>>
    /\ last' = Done("add_tenant", tenant_id, None, name, <<>>, None, FALSE)
    /\ UNCHANGED <<defaults, helper, gitconfig, pid, peer>>

\* remove_tenant that also drops the tenant's repository list
remove_tenant_purging(tenant_id, outcome) ==
    /\ config' = _clear_tenant_repos(
                     DictSet(config, "tenants",
                             remove_tenant_list(get_tenant_list(config), tenant_id)),
                     tenant_id).config
    /\ file' = _save_config(config')
    /\ \E run \in {delete_github_token_run(config', defaults, tenant_id, None,
                                            helper, gitconfig, outcome)} :
         /\ helper' = run.helper
         /\ calls' = <<SaveCall>> \o run.calls
         /\ last' = Done("remove_tenant", tenant_id, None, None, <<>>, None, run.raised)
    /\ UNCHANGED <<defaults, gitconfig, pid, peer>>

\* remove_tenant without the delete_github_token that ends it
remove_tenant_no_erase(tenant_id, outcome) ==
    /\ config' = DictSet(config, "tenants",
                         remove_tenant_list(get_tenant_list(config), tenant_id))
    /\ file' = _save_config(config')
    /\ calls' = <<SaveCall>>
    /\ last' = Done("remove_tenant", tenant_id, None, None, <<>>, None, FALSE)
    /\ UNCHANGED <<defaults, helper, gitconfig, pid, peer>>

\* outcome ends the `git credential reject` of delete_github_token(tenant_id)
remove_tenant(tenant_id, outcome) ==
    /\ config' = DictSet(config, "tenants",
                         remove_tenant_list(get_tenant_list(config), tenant_id))
    /\ file' = _save_config(config')
    /\ \E run \in {delete_github_token_run(config', defaults, tenant_id, None,
                                            helper, gitconfig, outcome)} :
         /\ helper' = run.helper
         /\ calls' = <<SaveCall>> \o run.calls
         /\ last' = Done("remove_tenant", tenant_id, None, None, <<>>, None, run.raised)
    /\ UNCHANGED <<defaults, gitconfig, pid, peer>>

----------------------------------------------------------------------------
(* Initial states: a process that has just run Config.__init__ *)

ApiUrl == <<"h","t","t","p","s",":","/","/","a","p","i">>

NoDefaults == [api |-> EmptyStr, lfs |-> EmptyStr]

\* CANDY_LFS_API_ENDPOINT and CANDY_LFS_LFS_ENDPOINT set in the environment
EnvDefaults == [api |-> ApiUrl, lfs |-> UrlPlain]

\* a document saved by an earlier run
SavedDoc ==
    [k \in {"api_endpoint", "current_tenant", "tenants", "tenant_repos"} |->
        CASE k = "api_endpoint" -> EmptyStr
          [] k = "current_tenant" -> T1
          [] k = "tenants" -> <<[tenant_id |-> T2, name |-> <<"n">>],
                                [tenant_id |-> T1, name |-> <<"m">>]>>
          [] k = "tenant_repos" -> [t \in {T1} |-> <<R1, EmptyStr>>]]

\* no other process has the file open
NoPeer == <<"no peer">>

Alone ==
    /\ pid = "A"
    /\ peer = NoPeer

Started ==
    /\ config = _load_config(file, defaults)
    /\ helper = EmptyDict
    /\ calls = <<>>
    /\ last = Done("__init__", None, None, None, <<>>, None, FALSE)

----------------------------------------------------------------------------
(* The settings store: every mutator, with `git credential reject`         *)
(* succeeding, failing and timing out.                                     *)

\* success, failure and time-out of an erasure
StoreOutcomes == {"ok", "nonzero", "timeout"}

InitStore ==
    /\ defaults = NoDefaults
    /\ file \in {NoFile, yaml_dump(SavedDoc)}
    /\ gitconfig = [h \in Hosts |-> None]
    /\ Started
    /\ Alone

NextStore ==
    \/ api_endpoint_set(EmptyStr)
    \/ lfs_endpoint_set(UrlPlain)
    \/ current_tenant_set(T1)
    \/ \E t \in TenantIds, n \in TenantNames : add_tenant(t, n)
    \/ \E t \in TenantIds, o \in StoreOutcomes : remove_tenant(t, o)
    \/ \E t \in TenantIds, rs \in RepoLists : set_tenant_repos(t, rs)
    \/ \E t \in TenantIds :
         \E os \in [1..Len(get_tenant_repos(config, t)) -> StoreOutcomes] :
           delete_all_tenant_credentials(t, os)

SpecStore == InitStore /\ [][NextStore]_vars

----------------------------------------------------------------------------
(* The identity of a scope: get_github_token and delete_github_token for   *)
(* every configuration of the LFS endpoint, the helper's store empty.      *)

\* the document and the defaults of each configuration of lfs_endpoint: not
\* set, set to each value, and not set or empty with a default from the
\* environment
LfsConfigured ==
    \/ /\ defaults = NoDefaults
       /\ file \in {NoFile} \cup
                   {yaml_dump(DictSet(SavedDoc, "lfs_endpoint", e)) : e \in LfsEndpoints}
    \/ /\ defaults = EnvDefaults
       /\ file \in {NoFile, yaml_dump(DictSet(SavedDoc, "lfs_endpoint", EmptyStr))}

InitIdent ==
    /\ LfsConfigured
    /\ gitconfig = [h \in Hosts |-> None]
    /\ Started
    /\ Alone

NextIdent ==
    \/ \E t \in TenantIds, r \in RepoArgs :
         \E info \in {_get_git_credential_info(config, defaults, t, r)} :
           \E resp \in FillResponses(helper, info[1], info[2], t) :
             get_github_token(t, r, resp)
    \/ \E t \in TenantIds, r \in RepoArgs, o \in Outcomes : delete_github_token(t, r, o)

SpecIdent == InitIdent /\ [][NextIdent]_vars

----------------------------------------------------------------------------
(* The three credential operations with every outcome of every program     *)
(* they start, on the placeholder host and on a configured one.            *)

FailScopes == {<<T1, None>>, <<T1, R1>>, <<T2, None>>}

InitFail ==
    /\ defaults = NoDefaults
    /\ \/ /\ file = NoFile
          /\ gitconfig = [h \in Hosts |-> None]
       \/ /\ file = yaml_dump(DictSet(SavedDoc, "lfs_endpoint", UrlPort))
          /\ gitconfig = [h \in Hosts |-> FalseStr]
    /\ Started
    /\ Alone

NextFail ==
    \/ \E s \in FailScopes :
         \E info \in {_get_git_credential_info(config, defaults, s[1], s[2])} :
           \E resp \in FillResponses(helper, info[1], info[2], s[1]) :
             get_github_token(s[1], s[2], resp)
    \/ \E s \in FailScopes, o1, o2, o3 \in Outcomes : set_github_token(s[1], K2, s[2], o1, o2, o3)
    \/ \E s \in FailScopes, o \in Outcomes : delete_github_token(s[1], s[2], o)

SpecFail == InitFail /\ [][NextFail]_vars

----------------------------------------------------------------------------
(* The three credential operations on every scope, with a helper that      *)
(* answers what it holds and git configuration that can be read and        *)
(* written; approve and reject can still fail.  lfs_endpoint is fixed.     *)

Scopes == TenantIds \X RepoArgs

\* the one answer of a helper that works: exit code 0 and the secret it holds
TrueResponse(h, host, path, username) ==
    [outcome |-> "ok",
     stdout |-> FillStdout(host, username,
                           DictGet(h, Identity(host, path, username), None))]

\* how `git config --get` ends when git works
GetOutcome(gc, host) == IF gc[host] = None THEN "nonzero" ELSE "ok"

InitCred ==
    /\ defaults = NoDefaults
    /\ file \in {NoFile, yaml_dump(DictSet(SavedDoc, "lfs_endpoint", UrlPort))}
    /\ gitconfig = [h \in Hosts |-> None]
    /\ Started
    /\ Alone

NextCred ==
    \/ \E s \in Scopes :
         \E info \in {_get_git_credential_info(config, defaults, s[1], s[2])} :
           get_github_token(s[1], s[2], TrueResponse(helper, info[1], info[2], s[1]))
    \/ \E s \in Scopes, k \in Tokens, o3 \in {"ok", "nonzero"} :
         \E info \in {_get_git_credential_info(config, defaults, s[1], s[2])} :
           set_github_token(s[1], k, s[2], GetOutcome(gitconfig, info[1]), "ok", o3)
    \/ \E s \in Scopes, o \in {"ok", "nonzero"} : delete_github_token(s[1], s[2], o)

SpecCred == InitCred /\ [][NextCred]_vars

----------------------------------------------------------------------------
(* Every operation that reaches the credential helper, for the tenants of  *)
(* a saved document: the helper answers what it holds, approve and reject  *)
(* can fail.                                                               *)

InitTenant ==
    /\ defaults = NoDefaults
    /\ file \in {yaml_dump(SavedDoc), yaml_dump(DictSet(SavedDoc, "lfs_endpoint", UrlPlain))}
    /\ gitconfig = [h \in Hosts |-> None]
    /\ Started
    /\ Alone

NextTenant ==
    \/ \E s \in Scopes :
         \E info \in {_get_git_credential_info(config, defaults, s[1], s[2])} :
           get_github_token(s[1], s[2], TrueResponse(helper, info[1], info[2], s[1]))
    \/ \E s \in Scopes, o3 \in {"ok", "nonzero"} :
         \E info \in {_get_git_credential_info(config, defaults, s[1], s[2])} :
           set_github_token(s[1], K1, s[2], GetOutcome(gitconfig, info[1]), "ok", o3)
    \/ \E s \in Scopes, o \in {"ok", "nonzero"} : delete_github_token(s[1], s[2], o)
    \/ \E t \in TenantIds :
         \E os \in [1..Len(get_tenant_repos(config, t)) -> {"ok", "nonzero"}] :
           delete_all_tenant_credentials(t, os)
    \/ \E t \in TenantIds, o \in {"ok", "nonzero"} : remove_tenant(t, o)

SpecTenant == InitTenant /\ [][NextTenant]_vars

----------------------------------------------------------------------------
(* Two processes on one CONFIG_FILE: each has run Config.__init__ and keeps *)
(* its own document; nothing locks the file.  The variables config and      *)
(* last belong to the process pid, whose calls the actions are.             *)

\* the other process is the one that makes the next call
OtherProcess ==
    /\ peer # NoPeer
    /\ pid' = IF pid = "A" THEN "B" ELSE "A"
    /\ config' = peer
    /\ peer' = config
    /\ UNCHANGED <<file, defaults, helper, gitconfig, calls, last>>

\* both processes have loaded the file, or found none, before either writes
InitShared ==
    /\ defaults = NoDefaults
    /\ file \in {NoFile, yaml_dump(SavedDoc)}
    /\ gitconfig = [h \in Hosts |-> None]
    /\ Started
    /\ pid = "A"
    /\ peer = _load_config(file, defaults)

NextShared ==
    \/ \E t \in TenantIds : add_tenant(t, <<"n">>)
    \/ \E t \in TenantIds : remove_tenant(t, "ok")
    \/ set_tenant_repos(T1, <<R1>>)
    \/ OtherProcess

SpecShared == InitShared /\ [][NextShared]_vars

----------------------------------------------------------------------------
(* Claims about the settings store *)

tenants == get_tenant_list(config)

\* the positions of the list ts that hold tenant_id t
Positions(ts, t) == {i \in 1..Len(ts) : ts[i].tenant_id = t}

Unique(ts) == \A i, j \in 1..Len(ts) : ts[i].tenant_id = ts[j].tenant_id => i = j

\* C2: after any sequence of add_tenant, remove_tenant, set_tenant_repos,
\* delete_all_tenant_credentials and the three setters, started from a
\* document with distinct tenant_ids, the tenants list holds at most one entry
\* per tenant_id, in memory and in the file.
C2_TenantsUnique ==
    /\ Unique(tenants)
    /\ file # NoFile => Unique(get_tenant_list(yaml_safe_load(file)))

\* add_tenant was called for a tenant_id that the list already held: the
\* entry is not the last one, where a new entry would be
C2_Witness ==
    /\ last.op = "add_tenant"
    /\ Len(tenants) = 2
    /\ tenants[1].tenant_id = last.tenant_id
    /\ Positions(last.before, last.tenant_id) # {}

\* C3: every mutator persists the whole document before it returns: a step
\* that changes the in-memory document leaves a file that parses to it, and
\* at all times a fresh load of the file gives the in-memory document.
C3_Persisted ==
    /\ [](_load_config(file, defaults) = config)
    /\ [][config' # config => file' # NoFile /\ yaml_safe_load(file') = config']_vars

\* a tenant's repository list was cleared, after a first write created the file
C3_Witness ==
    /\ last.op = "delete_all_tenant_credentials"
    /\ last.repos # <<>>
    /\ file # NoFile
    /\ "lfs_endpoint" \in DOMAIN config
    /\ Len(tenants) = 2

\* C4: add_tenant(tenant_id, name) for a tenant_id already in the list changes
\* only that entry's name (same length, same position, every other entry as
\* it was); for a tenant_id not in the list it appends {tenant_id, name} and
\* leaves the earlier entries as they were.  Either way one entry holds the
\* tenant_id afterwards, with the name given.
C4_AddTenant ==
    last.op = "add_tenant" =>
        LET old == last.before
            t   == last.tenant_id
            new == [tenant_id |-> t, name |-> last.value]
        IN  /\ IF Positions(old, t) # {}
               THEN /\ Len(tenants) = Len(old)
                    /\ \A i \in 1..Len(old) :
                         tenants[i] = IF old[i].tenant_id = t THEN new ELSE old[i]
               ELSE tenants = old \o <<new>>
            /\ Cardinality(Positions(tenants, t)) = 1

\* the second add_tenant for a tenant_id, with another name, with an entry
\* after it in the list
C4_Witness ==
    /\ last.op = "add_tenant"
    /\ Len(last.before) = 2
    /\ last.before[1].tenant_id = last.tenant_id
    /\ last.before[1].name # last.value
    /\ tenants[1].name = last.value

\* the number of the first i entries of ts that hold tenant_id t
Before(ts, t, i) == Cardinality({k \in Positions(ts, t) : k < i})

\* C5: after remove_tenant(t) no entry of the tenants list holds t and the
\* other entries are all there in their order; when t was not in the list the
\* list is as it was and the call does not raise.
C5_RemoveTenant ==
    last.op = "remove_tenant" =>
        LET old == last.before
            t   == last.tenant_id
        IN  /\ Positions(tenants, t) = {}
            /\ Len(tenants) = Len(old) - Cardinality(Positions(old, t))
            /\ \A i \in 1..Len(old) :
                 old[i].tenant_id # t => tenants[i - Before(old, t, i)] = old[i]
            /\ Positions(old, t) = {} => tenants = old /\ ~last.raised

\* the first of two entries was removed
C5_Witness ==
    /\ last.op = "remove_tenant"
    /\ Len(last.before) = 2
    /\ last.before[1].tenant_id = last.tenant_id
    /\ Len(tenants) = 1

\* remove_tenant for a tenant_id that was not in the list
C5_WitnessAbsent ==
    /\ last.op = "remove_tenant"
    /\ Positions(last.before, last.tenant_id) = {}
    /\ Len(tenants) = 1

----------------------------------------------------------------------------
(* Claims about the credential identity *)

\* the invocations of `git credential` among those of the last call
CredentialCalls ==
    {calls[i] : i \in {j \in 1..Len(calls) : calls[j].verb \in {"fill", "approve", "reject"}}}

\* the scope the last call named
LastScope == <<last.tenant_id, last.repo_name>>

HostPlain == <<"l","f","s",".","e","x","a","m","p","l","e",".","c","o","m">>

HostPort == HostPlain \o <<":","8","4","4","3">>

StripPort(h) == IF Find(h, {":"}) = 0 THEN h ELSE SubSeq(h, 1, Find(h, {":"}) - 1)

C7_Path ==
    last.op \in {"get_github_token", "delete_github_token"} =>
        \A c \in CredentialCalls :
            c.path = IF last.repo_name \in {None, EmptyStr}
                     THEN last.tenant_id
                     ELSE last.tenant_id \o <<"/">> \o last.repo_name

\* a call that passed the empty string as repo_name, the endpoint configured
C7_Witness ==
    /\ last.op = "delete_github_token"
    /\ last.repo_name = EmptyStr
    /\ lfs_endpoint(config, defaults) # EmptyStr
    /\ \E c \in CredentialCalls : c.path = last.tenant_id

\* C7 as the claim has it: every repo_name other than None is joined to the
\* tenant_id by one "/".
C7_PathAnyString ==
    last.op \in {"get_github_token", "delete_github_token"} =>
        \A c \in CredentialCalls :
            c.path = IF last.repo_name = None
                     THEN last.tenant_id
                     ELSE last.tenant_id \o <<"/">> \o last.repo_name

\* C8: every invocation of `git credential` (fill, approve, reject) made by
\* get_github_token, set_github_token, delete_github_token,
\* delete_all_tenant_credentials and remove_tenant names the tenant_id
\* argument of that call as username, whatever the repo_name and the
\* endpoint.
C8_Username ==
    \A c \in CredentialCalls : c.username = last.tenant_id

\* delete_all_tenant_credentials erased a repository's secret and the
\* tenant's own on a configured host: a path that differs from the username
C8_Witness ==
    /\ last.op = "delete_all_tenant_credentials"
    /\ Len(last.repos) = 2
    /\ lfs_endpoint(config, defaults) # EmptyStr
    /\ \E c \in CredentialCalls : c.verb = "reject" /\ c.path # c.username
    /\ \E c \in CredentialCalls : c.verb = "reject" /\ c.path = c.username

----------------------------------------------------------------------------
(* Claims about the secrets the helper holds *)

\* the identity the scope s has under the document in memory
IdentityOf(s) ==
    LET info == _get_git_credential_info(config, defaults, s[1], s[2])
    IN  Identity(info[1], info[2], s[1])

\* the secret the store h holds for the scope s
Held(h, s) == DictGet(h, IdentityOf(s), None)

\* a scope with the empty repo_name read as no repo_name
Norm(s) == <<s[1], IF s[2] = EmptyStr THEN None ELSE s[2]>>

\* C1 (as the code has it): with a fixed lfs_endpoint and a helper that keys
\* on (host, path, username), two scopes that differ after the empty
\* repo_name is read as no repo_name never have the same identity;
\* get_github_token returns what the helper holds under the identity of its
\* own scope; and set_github_token and delete_github_token leave the secret
\* of every such other scope as it was.
C1_Isolation ==
    /\ [](\A s1, s2 \in Scopes :
            Norm(s1) # Norm(s2) => IdentityOf(s1) # IdentityOf(s2))
    /\ [](last.op = "get_github_token" => last.result = Held(helper, LastScope))
    /\ [][last'.op \in {"set_github_token", "delete_github_token"} =>
            \A s \in Scopes :
                Norm(s) # Norm(<<last'.tenant_id, last'.repo_name>>) =>
                    Held(helper', s) = Held(helper, s)]_vars

\* a repository's token was returned while the helper holds another token
\* for the same host and path under another tenant's username
C1_Witness ==
    /\ last.op = "get_github_token"
    /\ LastScope = <<T1, R1>>
    /\ last.result # None
    /\ Held(helper, <<T2, None>>) \notin {None, last.result}
    /\ IdentityOf(<<T1, R1>>)[1] = IdentityOf(<<T2, None>>)[1]
    /\ IdentityOf(<<T1, R1>>)[2] = IdentityOf(<<T2, None>>)[2]
    /\ IdentityOf(<<T1, R1>>)[1] # LocalHost

\* C1 as the claim has it: set_github_token and delete_github_token for one
\* scope leave the secret of every different scope as it was.
C1_AnyTwoScopes ==
    [][last'.op \in {"set_github_token", "delete_github_token"} =>
          \A s \in Scopes :
              s # <<last'.tenant_id, last'.repo_name>> =>
                  Held(helper', s) = Held(helper, s)]_vars

----------------------------------------------------------------------------
(* Claims about failures *)

\* C9 (as the code has it): set_github_token first queries
\* credential.https://<host>.useHttpPath for the host it derived, sets the key
\* when the query ended without raising and did not print "true", and invokes
\* approve last, for the same host.  The key is true when approve starts if
\* the query printed "true" or the set exited with 0; in every other case
\* approve starts with the key as it was before the call.
C9_PathScoping ==
    last.op = "set_github_token" =>
        LET n   == Len(calls)
            get == calls[1]
            isTrue == get.outcome = "ok" /\ get.useHttpPath = TrueStr
        IN  /\ n \in {2, 3}
            /\ get.verb = "config_get"
            /\ calls[n].verb = "approve"
            /\ \A i \in 1..n : calls[i].host = calls[n].host
            /\ n = 3 <=> get.outcome \notin Raising /\ ~isTrue
            /\ n = 3 => calls[2].verb = "config_set"
            /\ calls[n].useHttpPath =
                 IF isTrue \/ (n = 3 /\ calls[2].outcome = "ok")
                 THEN TrueStr
                 ELSE get.useHttpPath

\* the key was "false", the query printed it, the set exited with 0 and
\* approve started with the key true
C9_Witness ==
    /\ last.op = "set_github_token"
    /\ Len(calls) = 3
    /\ calls[1].outcome = "ok"
    /\ calls[1].useHttpPath = FalseStr
    /\ calls[2].outcome = "ok"
    /\ calls[3].verb = "approve"
    /\ calls[3].useHttpPath = TrueStr
    /\ calls[3].outcome = "ok"

\* C9 as the claim has it: the key is true whenever approve is invoked.
C9_AlwaysEnsured ==
    \A c \in CredentialCalls : c.verb = "approve" => c.useHttpPath = TrueStr

\* C10: whichever way the programs they start end (exit code 0, another exit
\* code, time-out, failure to start), get_github_token, set_github_token and
\* delete_github_token return without raising, and get_github_token returns
\* None when `git credential fill` did not exit with 0.
C10_NeverRaises ==
    last.op \in {"get_github_token", "set_github_token", "delete_github_token"} =>
        /\ ~last.raised
        /\ last.op = "get_github_token" =>
             /\ Len(calls) = 1
             /\ calls[1].verb = "fill"
             /\ calls[1].outcome # "ok" => last.result = None

\* `git credential fill` timed out for a scope whose secret the helper holds
C10_Witness ==
    /\ last.op = "get_github_token"
    /\ calls[1].outcome = "timeout"
    /\ Held(helper, LastScope) # None
    /\ last.result = None
    /\ ~last.raised

----------------------------------------------------------------------------
(* Claims about the repository lists *)

\* the invocations of the last call that did not exit with 0
Failed == {c \in CredentialCalls : c.outcome # "ok"}

\* C11: after delete_all_tenant_credentials(t) has returned, get_tenant_repos(t)
\* is empty in memory and in a document loaded from the file, whether each
\* `git credential reject` exited with 0, exited with another code or timed
\* out; the call does not raise.
C11_ReposCleared ==
    last.op = "delete_all_tenant_credentials" =>
        /\ ~last.raised
        /\ get_tenant_repos(config, last.tenant_id) = <<>>
        /\ get_tenant_repos(_load_config(file, defaults), last.tenant_id) = <<>>
        /\ file # NoFile =>
             last.tenant_id \notin DOMAIN DictGet(yaml_safe_load(file), "tenant_repos", EmptyDict)

\* two names were registered, one erasure failed and the other timed out
C11_Witness ==
    /\ last.op = "delete_all_tenant_credentials"
    /\ Len(last.repos) = 2
    /\ {c.outcome : c \in Failed} = {"nonzero", "timeout"}
    /\ calls[Len(calls)] = SaveCall
    /\ get_tenant_repos(config, last.tenant_id) = <<>>

\* C12: after set_tenant_repos(t, L), get_tenant_repos(t) is L, in memory and
\* in a document loaded from the file; the call leaves the list of every other
\* tenant as it was; and get_tenant_repos of a tenant without an entry is the
\* empty list.
C12_SetTenantRepos ==
    /\ [](\A t \in TenantIds :
            t \notin DOMAIN DictGet(config, "tenant_repos", EmptyDict) =>
                get_tenant_repos(config, t) = <<>>)
    /\ [](last.op = "set_tenant_repos" =>
            /\ get_tenant_repos(config, last.tenant_id) = last.repos
            /\ get_tenant_repos(_load_config(file, defaults), last.tenant_id) = last.repos)
    /\ [][last'.op = "set_tenant_repos" =>
            \A t \in TenantIds \ {last'.tenant_id} :
                get_tenant_repos(config', t) = get_tenant_repos(config, t)]_vars

\* a list of two names was set for one tenant while the other tenant has a
\* list and the first had none of its own
C12_Witness ==
    /\ last.op = "set_tenant_repos"
    /\ Len(last.repos) = 2
    /\ get_tenant_repos(config, last.tenant_id) = <<R1, EmptyStr>>
    /\ \E t \in TenantIds \ {last.tenant_id} : get_tenant_repos(config, t) = <<R1>>

----------------------------------------------------------------------------
(* Claims about the cleanup of a tenant *)

\* a step that completes the second of delete_all_tenant_credentials(t) and
\* remove_tenant(t), the other having been the call before it, every
\* `git credential reject` of the two having exited with 0
CleanupPair ==
    /\ {last.op, last'.op} = {"delete_all_tenant_credentials", "remove_tenant"}
    /\ last.tenant_id = last'.tenant_id
    /\ Failed = {}
    /\ \A i \in 1..Len(calls') : calls'[i].outcome = "ok"

\* the repository list delete_all_tenant_credentials found in such a step
Registered == IF last.op = "delete_all_tenant_credentials" THEN last.repos ELSE last'.repos

\* no entry for the tenant t in the tenants list and in tenant_repos of d
Forgotten(d, t) ==
    /\ Positions(get_tenant_list(d), t) = {}
    /\ t \notin DOMAIN DictGet(d, "tenant_repos", EmptyDict)

C14_Rejects ==
    last.op = "delete_all_tenant_credentials" =>
        LET n == Len(last.repos)
            t == last.tenant_id
        IN  /\ Len(calls) \in {n, n + 1}
            /\ \A i \in 1..n :
                 /\ calls[i].verb = "reject"
                 /\ calls[i].username = t
                 /\ calls[i].path = IF last.repos[i] = EmptyStr
                                    THEN t
                                    ELSE t \o <<"/">> \o last.repos[i]
            /\ Len(calls) = n + 1 => calls[n + 1] = SaveCall

\* the list held a name and the empty name: a reject for the repository, a
\* reject for the bare path, then the write
C14_Witness ==
    /\ last.op = "delete_all_tenant_credentials"
    /\ last.tenant_id = T2
    /\ Len(calls) = 3
    /\ calls[1].path = T2 \o <<"/">> \o R1
    /\ calls[2].path = T2
    /\ calls[3] = SaveCall

\* C14 as the claim has it: every reject has the path t, "/", the name, and
\* none has the bare path t.
C14_PerRepoOnly ==
    last.op = "delete_all_tenant_credentials" =>
        /\ Len(SelectSeq(calls, LAMBDA c : c.verb = "reject")) = Len(last.repos)
        /\ \A i \in 1..Len(last.repos) :
             /\ calls[i].verb = "reject"
             /\ calls[i].username = last.tenant_id
             /\ calls[i].path = last.tenant_id \o <<"/">> \o last.repos[i]
        /\ \A c \in CredentialCalls : c.path # last.tenant_id

\* the keys of the document that remove_tenant does not write
OtherKeys == {"tenant_repos", "current_tenant", "api_endpoint", "lfs_endpoint"}

\* the documents d and e agree on the key k
SameAt(d, e, k) ==
    /\ k \in DOMAIN d <=> k \in DOMAIN e
    /\ k \in DOMAIN d => d[k] = e[k]

\* C15: remove_tenant(t) writes the file, with t off the tenants list, and
\* then issues one `git credential reject`, for the path t with username t,
\* and no other; in memory and in the file it leaves tenant_repos (t's own
\* entry included), current_tenant (also when it is t), api_endpoint and
\* lfs_endpoint as they were.
C15_RemoveTenantFrame ==
    /\ [](last.op = "remove_tenant" =>
            /\ Len(calls) = 2
            /\ calls[1] = SaveCall
            /\ calls[2].verb = "reject"
            /\ calls[2].path = last.tenant_id
            /\ calls[2].username = last.tenant_id
            /\ Positions(get_tenant_list(yaml_safe_load(file)), last.tenant_id) = {})
    /\ [][last'.op = "remove_tenant" =>
            \A k \in OtherKeys :
                /\ SameAt(config', config, k)
                /\ SameAt(_load_config(file', defaults), config, k)]_vars

\* the tenant removed was the current tenant and has a repository list
C15_Witness ==
    /\ last.op = "remove_tenant"
    /\ Positions(last.before, last.tenant_id) # {}
    /\ current_tenant_get(config) = last.tenant_id
    /\ Len(get_tenant_repos(config, last.tenant_id)) = 2
    /\ "lfs_endpoint" \in DOMAIN config

----------------------------------------------------------------------------
(* Claims about two processes on one file *)

\* the tenant_ids on the tenants list of the document d
TenantIdsOf(d) == {get_tenant_list(d)[i].tenant_id : i \in 1..Len(get_tenant_list(d))}

\* C16: with two processes that each loaded the file into a document of their
\* own and no locking, every write replaces the file by the writer's whole
\* document: the file then holds no tenant and no repository list that the
\* writer's memory did not hold, other than what the call itself adds, so
\* what the other process had written is gone (last writer wins).
C16_LastWriterWins ==
    [][file' # file =>
          /\ file' = yaml_dump(config')
          /\ yaml_safe_load(file') = config'
          /\ TenantIdsOf(yaml_safe_load(file')) \subseteq
                TenantIdsOf(config) \cup {last'.tenant_id}
          /\ \A t \in TenantIds \ {last'.tenant_id} :
                get_tenant_repos(yaml_safe_load(file'), t) = get_tenant_repos(config, t)]_vars

\* both processes found no file; one added a tenant and wrote, then the other
\* added another tenant and wrote: the file is the second writer's document
\* and the first writer's tenant, still in its memory, is not in the file
C16_Witness ==
    /\ last.op = "add_tenant"
    /\ peer # NoPeer
    /\ "tenant_repos" \notin DOMAIN config
    /\ "tenant_repos" \notin DOMAIN peer
    /\ file = yaml_dump(config)
    /\ TenantIdsOf(config) = {last.tenant_id}
    /\ TenantIdsOf(peer) # {}
    /\ TenantIdsOf(peer) \cap TenantIdsOf(yaml_safe_load(file)) = {}

----------------------------------------------------------------------------
(* Claims about the host configuration *)

\* the `git config` invocations that set the key, among those of the log cs
ConfigSets(cs) == {i \in 1..Len(cs) : cs[i].verb = "config_set"}

\* the --get of the log cs exited with 0 and printed "true"
ReadTrue(cs) == cs[1].outcome = "ok" /\ cs[1].useHttpPath = TrueStr

\* C17: _ensure_use_http_path reads credential.https://<host>.useHttpPath
\* first and issues the command that sets it only when the read exited with
\* another code than 0 or printed something other than "true"; when the read
\* prints "true" it issues no set and git's configuration stays as it is; so
\* a set_github_token that follows one whose commands all succeeded, for the
\* same host, and reads the key, issues no set.
C17_CheckThenSet ==
    /\ [](last.op = "set_github_token" =>
            /\ calls[1].verb = "config_get"
            /\ ConfigSets(calls) \subseteq {2}
            /\ ConfigSets(calls) # {} =>
                 \/ calls[1].outcome = "nonzero"
                 \/ calls[1].outcome = "ok" /\ calls[1].useHttpPath # TrueStr
            /\ ReadTrue(calls) => ConfigSets(calls) = {})
    /\ [][last'.op = "set_github_token" /\ ReadTrue(calls') =>
            gitconfig' = gitconfig]_vars
    /\ [][/\ last.op = "set_github_token"
          /\ last'.op = "set_github_token"
          /\ calls'[1].host = calls[1].host
          /\ \A i \in 1..Len(calls) : calls[i].outcome = "ok"
          /\ calls'[1].outcome = "ok"
          => ConfigSets(calls') = {} /\ gitconfig' = gitconfig]_vars

\* on a host whose key was "false", a set_github_token found the key "true":
\* the query and approve, and no set
C17_Witness ==
    /\ last.op = "set_github_token"
    /\ ReadTrue(calls)
    /\ Len(calls) = 2
    /\ calls[2].verb = "approve"
    /\ calls[1].host = HostPort
    /\ gitconfig[HostPort] = TrueStr

----------------------------------------------------------------------------
(* Claims about the result of get_github_token *)

\* the lines of the output out that start with "password="
PasswordLines(out) ==
    {i \in 1..Len(out) : Len(out[i]) >= 9 /\ SubSeq(out[i], 1, 9) = PasswordPrefix}

\* C18: get_github_token returns a secret exactly when `git credential fill`
\* exited with 0 and printed a line that starts with "password="; the value
\* is then the rest of the first such line after its first "=", which is the
\* ninth character; in every other case (no such line, another exit code,
\* time-out, failure to start) it returns None.
C18_FillResult ==
    last.op = "get_github_token" =>
        LET out == last.value
            P   == PasswordLines(out)
        IN  IF calls[1].outcome = "ok" /\ P # {}
            THEN \E i \in P :
                    /\ \A j \in P : i <= j
                    /\ last.result = SubSeq(out[i], 10, Len(out[i]))
                    /\ last.result # None
            ELSE last.result = None

\* the helper printed two password lines, the first with a "=" in the secret
C18_Witness ==
    /\ last.op = "get_github_token"
    /\ calls[1].outcome = "ok"
    /\ Cardinality(PasswordLines(last.value)) = 2
    /\ last.result = K2

----------------------------------------------------------------------------
(* Claims about the round trip through the helper *)

\* the scope of the call a step completes
NextScope == <<last'.tenant_id, last'.repo_name>>

\* every `git credential` invocation of the log cs exited with 0
AllOk(cs) ==
    \A i \in 1..Len(cs) :
        cs[i].verb \in {"fill", "approve", "reject"} => cs[i].outcome = "ok"

\* get_github_token right after a set_github_token that succeeded, for the
\* same scope, returns the token; right after a delete_github_token that
\* succeeded it returns None
RoundTrip ==
    last'.op = "get_github_token" /\ NextScope = LastScope /\ AllOk(calls) =>
        /\ last.op = "set_github_token" => last'.result = last.value
        /\ last.op = "delete_github_token" => last'.result = None

\* a set_github_token that succeeded leaves the token under its scope, a
\* delete_github_token that succeeded leaves nothing, and get_github_token
\* returns what is held under its scope and leaves the store as it is
Stores ==
    /\ last'.op = "set_github_token" /\ AllOk(calls') =>
         Held(helper', NextScope) = last'.value
    /\ last'.op = "delete_github_token" /\ AllOk(calls') =>
         Held(helper', NextScope) = None
    /\ last'.op = "get_github_token" =>
         helper' = helper /\ last'.result = Held(helper, NextScope)

\* C19 (as the code has it): with a helper that succeeds and keys on (host,
\* path, username) and lfs_endpoint unchanged, get_github_token(t, r) returns
\* the latest token a set_github_token(t, tok, r) stored, and None after a
\* delete_github_token(t, r); and the three calls do not change what the
\* helper holds for any scope that differs from theirs after the empty
\* repo_name is read as no repo_name.
C19_RoundTrip ==
    [][/\ RoundTrip
       /\ Stores
       /\ last'.op \in {"get_github_token", "set_github_token", "delete_github_token"} =>
            \A s \in Scopes :
                Norm(s) # Norm(NextScope) => Held(helper', s) = Held(helper, s)]_vars

\* a token with a "=" in it was stored for a repository and read back while
\* the helper holds another token for the same tenant without repository
C19_Witness ==
    /\ last.op = "get_github_token"
    /\ last.repo_name = R1
    /\ last.result = K2
    /\ Held(helper, <<last.tenant_id, None>>) = K1
    /\ Held(helper, <<last.tenant_id, EmptyStr>>) = K1

\* C19 as the claim has it: the three calls do not change what the helper
\* holds for any scope other than theirs.
C19_AnyOtherScope ==
    [][/\ RoundTrip
       /\ Stores
       /\ last'.op \in {"get_github_token", "set_github_token", "delete_github_token"} =>
            \A s \in Scopes :
                s # NextScope => Held(helper', s) = Held(helper, s)]_vars

====
